---- MODULE Spec2Model ----
(***************************************************************************)
(* pibsolver (particleinabox.py): the Schroedinger equation of a particle  *)
(* in a one-dimensional potential, solved in a finite basis of             *)
(* particle-in-a-box functions.  The script is a straight-line program;    *)
(* pc is its position.                                                     *)
(*                                                                         *)
(* Numbers.  Python floats are modelled in fixed point over the integers:  *)
(*   - positions (xmin, xmax, L) are integers (Angstrom);                  *)
(*   - a grid node x[k] is the numerator of a fraction over ngrid-1, so    *)
(*     that numpy.linspace is exact: node = x[k] / (ngrid-1);              *)
(*   - sines, the normalisation tl and exp carry the factor Scale;         *)
(*   - energies are integers (cm^-1);                                      *)
(*   - inf and nan are the one value NonFinite, which every arithmetic     *)
(*     operator propagates;                                                *)
(*   - a float holds integers exactly only up to Big (2^53 for a double,   *)
(*     2^MantBits here): Fl rounds to the nearest float above it.          *)
(***************************************************************************)
EXTENDS Integers, Sequences, FiniteSets, TLC

\* ------------------------------------------------------------- bounds
\* ngrid inputs are -1 .. MaxGrid
MaxGrid == 4
\* nbasis inputs are 0 .. MaxBasis
MaxBasis == 2
\* xmin, xmax inputs are 0 .. MaxPos, and Big
MaxPos == 2
\* integers up to 2^MantBits are exact floats; above, only every second one
MantBits == 2

Big == 2^MantBits
Scale == 10^2

\* ---------------------------------------------------------- constants
\* equilibrium bond length, Angstrom (0.96966)
re == 1
\* dissociation energy, cm^-1 (37778.617)
de == 37779
\* 0.5*fk*1e-20/(h*c*100), cm^-1 per Angstrom^2
prefactor == 146280
\* sqrt(fk/2/(de*h*c*100))*1e-10, per Angstrom (1.97)
alpha == 2
\* hbar^2 pi^2 / (2 mass 1e-20 h c 100): kepf times L^2, cm^-1 Angstrom^2
KPref == 88
\* numpy.exp overflows to inf above this argument (709.78 for a double)
ExpMax == 1
\* the results table shows at most this many levels
MaxRows == 40

\* ------------------------------------------------------------- floats
NonFinite == 0 - (2^30) - (2^30 - 1)

Finite(a) == a # NonFinite

FAdd(a, b) == IF Finite(a) /\ Finite(b) THEN a + b ELSE NonFinite

FSub(a, b) == IF Finite(a) /\ Finite(b) THEN a - b ELSE NonFinite

FMul(a, b) == IF Finite(a) /\ Finite(b) THEN a * b ELSE NonFinite

\* a / d for a positive integer d, rounded down
FDiv(a, d) == IF Finite(a) THEN a \div d ELSE NonFinite

Abs(a) == IF a < 0 THEN 0 - a ELSE a

Max(a, b) == IF a >= b THEN a ELSE b

Min(a, b) == IF a <= b THEN a ELSE b

\* The float nearest to the integer v: exact up to Big; from Big to 2*Big the
\* floats are the even integers, and a tie goes to the even mantissa.
Fl(v) ==
    IF Abs(v) <= Big \/ v % 2 = 0 THEN v
    ELSE IF (v - 1) % 4 = 0 THEN v - 1 ELSE v + 1

\* floor of the square root
ISqrt(n) == CHOOSE r \in 0..(2 * Scale) : r * r <= n /\ (r + 1) * (r + 1) > n

\* Scale * sin(a*pi/b) for 0 <= a <= b (Bhaskara's rational approximation,
\* exact at 0, pi/6, pi/2, 5pi/6 and pi)
SinHalf(a, b) == (16 * a * (b - a) * Scale) \div (5 * b * b - 4 * a * (b - a))

\* Scale * sin(a*pi/b), b > 0: math.sin
Sin(a, b) ==
    LET m == a % (2 * b)
    IN  IF m <= b THEN SinHalf(m, b) ELSE 0 - SinHalf(m - b, b)

\* e^0 .. e^8, rounded
EPow == <<1, 3, 7, 20, 55, 148, 403, 1097, 2981>>

\* Scale * e^(un/ud) for 0 <= un/ud < 8, linear between the integer powers
ExpPos(un, ud) ==
    LET q == un \div ud
        r == un % ud
    IN  Scale * EPow[q + 1] + (Scale * (EPow[q + 2] - EPow[q + 1]) * r) \div ud

\* Scale * e^(tn/td), td > 0: numpy.exp, which overflows to inf
Exp(tn, td) ==
    IF tn > ExpMax * td THEN NonFinite
    ELSE IF tn >= 0 THEN ExpPos(tn, td)
    ELSE IF 0 - tn >= (Len(EPow) - 1) * td THEN 0
    ELSE (Scale * Scale) \div ExpPos(0 - tn, td)

\* -------------------------------------------------------------- state
VARIABLES
    cfg,            \* the inputs as written in the VARIABLES section (never changes)
    potential,      \* which potential V stands for
    make_plots,
    pc,             \* position in the script
    err,            \* the exception that ended the run, or "none"
    xmin, xmax, L, tl, ngrid, nbasis,
    x,              \* the grid: nodes 0..ngrid-1, numerators over ngrid-1
    H,              \* the Hamiltonian: H[i][j], i, j in 0..nbasis-1
    i, j,           \* loop indices of the assembly loops
    y,              \* the sample vector of the last quadrature
    pwrites,        \* pwrites[a][b]: writes of the potential loop to H[a][b] so far
    evalues, evectors,
    stdout,         \* rows of the results table printed
    outfile,        \* what the eigenvalue file holds, <<>> while not written
    spectrumfile, potentialfile,   \* TRUE once the pdf is saved
    plotxmin, plotxmax, plotymin, plotymax, plotmax

vars == <<cfg, potential, make_plots, pc, err, xmin, xmax, L, tl, ngrid, nbasis,
          x, H, i, j, y, pwrites, evalues, evectors, stdout, outfile,
          spectrumfile, potentialfile, plotxmin, plotxmax, plotymin, plotymax,
          plotmax>>

config == <<xmin, xmax, L, tl, ngrid, nbasis>>
assembly == <<x, H, i, j, y, pwrites>>
eigen == <<evalues, evectors>>
output == <<stdout, outfile, spectrumfile, potentialfile>>
plotrange == <<plotxmin, plotxmax, plotymin, plotymax, plotmax>>
inputs == <<cfg, potential, make_plots>>

Potentials == {"box", "harmonic", "morse"}

PosInputs == (0..MaxPos) \cup {Big}

Init ==
    /\ xmin \in PosInputs
    /\ xmax \in PosInputs
    /\ ngrid \in (0 - 1)..MaxGrid
    /\ nbasis \in 0..MaxBasis
    /\ cfg = [xmin |-> xmin, xmax |-> xmax, ngrid |-> ngrid, nbasis |-> nbasis]
    /\ potential \in Potentials
    /\ make_plots \in BOOLEAN
    /\ pc = "configure"
    /\ err = "none"
    /\ L = 0
    /\ tl = 0
    /\ x = <<>>
    /\ H = <<>>
    /\ i = 0
    /\ j = 0
    /\ y = <<>>
    /\ pwrites = <<>>
    /\ evalues = <<>>
    /\ evectors = <<>>
    /\ stdout = <<>>
    /\ outfile = <<>>
    /\ spectrumfile = FALSE
    /\ potentialfile = FALSE
    /\ plotxmin = 0
    /\ plotxmax = 0
    /\ plotymin = 0
    /\ plotymax = 0
    /\ plotmax = 0

\* ------------------------------------------------- input correction
\* lines 125-128: the corrected <<xmin, xmax>>
CorrectBounds(lo, hi) ==
    IF hi = lo THEN <<lo, Fl(lo + 1)>>
    ELSE IF hi < lo THEN <<hi, lo>>
    ELSE <<lo, hi>>

\* mutant: the floor alone, an even size kept
CorrectNgridFloorOnly(n) == Max(n, 3)

\* lines 138-141
CorrectNgrid(n) ==
    LET m == Max(n, 3)
    IN  IF m % 2 = 0 THEN m + 1 ELSE m

\* line 143
CorrectNbasis(n) == Max(1, n)

\* mutant: the failing statement is tried again
RaiseAndRetry(e) ==
    /\ pc' = pc
    /\ err' = e

\* An exception nothing catches ends the script: no later statement runs.
Raise(e) ==
    /\ pc' = "aborted"
    /\ err' = e

\* lines 125-143.  2./L (line 133) raises ZeroDivisionError when L is 0.
Configure ==
    /\ pc = "configure"
    /\ LET b == CorrectBounds(xmin, xmax)
           width == Fl(b[2] - b[1])
       IN  /\ xmin' = b[1]
           /\ xmax' = b[2]
           /\ L' = width
           /\ IF width = 0
              THEN /\ Raise("ZeroDivisionError")
                   /\ UNCHANGED <<tl, ngrid, nbasis>>
              ELSE /\ tl' = ISqrt((2 * Scale * Scale) \div width)
                   /\ ngrid' = CorrectNgrid(ngrid)
                   /\ nbasis' = CorrectNbasis(nbasis)
                   /\ pc' = "grid"
                   /\ err' = err
    /\ UNCHANGED <<inputs, assembly, eigen, output, plotrange>>

\* --------------------------------------------------------- the grid
\* line 149, numpy.linspace(lo, hi, n): start + k*step, the last node set to
\* stop.  Nodes are numerators over n-1.
linspace(lo, hi, n) ==
    [k \in 0..(n - 1) |-> IF k = n - 1 THEN hi * (n - 1)
                          ELSE lo * (n - 1) + k * (hi - lo)]

\* line 152, numpy.zeros((n, n))
zeros(n) == [a \in 0..(n - 1) |-> [b \in 0..(n - 1) |-> 0]]

\* lines 149-152
BuildGrid ==
    /\ pc = "grid"
    /\ x' = linspace(xmin, xmax, ngrid)
    /\ H' = zeros(nbasis)
    /\ pwrites' = zeros(nbasis)
    /\ i' = 0
    /\ pc' = "kinetic"
    /\ UNCHANGED <<inputs, err, config, j, y, eigen, output, plotrange>>

\* ------------------------------------------------------ kinetic energy
\* line 164: the prefactor C of the kinetic energy
kepf == KPref \div (L * L)

\* mutant: linear instead of quadratic in the quantum number
KineticTermLinear(a) == kepf * (a + 1)

\* line 166: the kinetic energy of basis function a (0-based)
KineticTerm(a) == kepf * (a + 1) * (a + 1)

\* lines 165-166, one iteration of the loop
Kinetic ==
    /\ pc = "kinetic"
    /\ H' = [H EXCEPT ![i][i] = FAdd(@, KineticTerm(i))]
    /\ IF i + 1 < nbasis
       THEN /\ i' = i + 1
            /\ UNCHANGED <<pc, j>>
       ELSE /\ i' = 0
            /\ j' = 0
            /\ pc' = "potential"
    /\ UNCHANGED <<inputs, err, config, x, y, pwrites, eigen, output, plotrange>>

\* ---------------------------------------------------- potential energy
\* lines 91-92
box(p) == 0

\* lines 97-98: prefactor*(x-re)*(x-re) at x = p/(ngrid-1)
harmonic(p) ==
    LET D == ngrid - 1
        d == p - re * D
    IN  (prefactor * d * d) \div (D * D)

\* lines 108-109: de*(1-exp(-alpha*(x-re)))**2 at x = p/(ngrid-1)
morse(p) ==
    LET D == ngrid - 1
        e == Exp(alpha * (re * D - p), D)
        w == FSub(Scale, e)
    IN  FDiv(FMul(de, FMul(w, w)), Scale * Scale)

\* lines 116-117: the potential used for this calculation
V(p) ==
    CASE potential = "box" -> box(p)
      [] potential = "harmonic" -> harmonic(p)
      [] potential = "morse" -> morse(p)

\* lines 133-136: Scale * tl*sin(n*x*pi/L) at the local coordinate
\* x = p/(ngrid-1), p a numerator
pib(p, n, width) == (tl * Sin(n * p, width * (ngrid - 1))) \div Scale

\* line 176: pib(p-xmin,i+1.,L)*V(p)*pib(p-xmin,j+1.,L) at node k
Sample(a, b, k) ==
    LET p == x[k]
        loc == p - xmin * (ngrid - 1)
    IN  FDiv(FMul(FDiv(FMul(pib(loc, a + 1, L), V(p)), Scale), pib(loc, b + 1, L)),
             Scale)

\* lines 173-176: y after the loop over k
Samples(a, b) == [k \in 0..(ngrid - 1) |-> FAdd(0, Sample(a, b, k))]

\* One Simpson panel (nodes 2p, 2p+1, 2p+2) of scipy's simps, times 6:
\* hsum * (y0*(2 - h1/h0) + y1*hsum*hsum/(h0*h1) + y2*(2 - h0/h1)).
\* A zero spacing divides by zero: inf or nan.
Panel(yv, xv, p) ==
    LET h0 == xv[2 * p + 1] - xv[2 * p]
        h1 == xv[2 * p + 2] - xv[2 * p + 1]
        hsum == h0 + h1
        y0 == yv[2 * p]
        y1 == yv[2 * p + 1]
        y2 == yv[2 * p + 2]
    IN  IF h0 = 0 \/ h1 = 0 \/ ~Finite(y0) \/ ~Finite(y1) \/ ~Finite(y2)
        THEN NonFinite
        ELSE hsum * ((y0 * (2 * h0 - h1) * h1 + y1 * hsum * hsum
                      + y2 * (2 * h1 - h0) * h0) \div (h0 * h1))

RECURSIVE SumPanels(_, _, _)
SumPanels(yv, xv, p) ==
    IF p < 0 THEN 0 ELSE FAdd(SumPanels(yv, xv, p - 1), Panel(yv, xv, p))

RECURSIVE SumTrapezia(_, _, _)
SumTrapezia(yv, xv, k) ==
    IF k < 0 THEN 0
    ELSE FAdd(SumTrapezia(yv, xv, k - 1),
              FMul(xv[k + 1] - xv[k], FAdd(yv[k], yv[k + 1])))

\* mutant: the trapezoidal rule (numpy.trapz) in place of Simpson's
trapz(yv, xv, n) == FDiv(SumTrapezia(yv, xv, n - 2), 2 * (n - 1))

\* line 177, scipy.integrate.simps(y, x) for an odd number n of nodes: the sum
\* of the panels.  The nodes are numerators over n-1, hence the division.
simps(yv, xv, n) == FDiv(SumPanels(yv, xv, (n - 3) \div 2), 6 * (n - 1))

\* mutant: the two loops interchanged (column by column)
NextCellColumnMajor(a, b) ==
    IF a + 1 < nbasis THEN <<a + 1, b>>
    ELSE IF b + 1 < nbasis THEN <<0, b + 1>>
    ELSE <<nbasis, 0>>

\* lines 170-171: the loop indices after cell (a, b); <<nbasis, 0>> ends the loops
NextCell(a, b) ==
    IF b + 1 < nbasis THEN <<a, b + 1>> ELSE <<a + 1, 0>>

\* mutant: the cell added onto itself
MirrorSelf(a, b) == H[a][b]

\* line 179: what the lower-triangle cell (a, b) receives
Mirror(a, b) == H[b][a]

\* lines 170-179, one iteration of the double loop (cell i, j)
PotentialStep ==
    /\ pc = "potential"
    /\ IF j >= i
       THEN /\ y' = Samples(i, j)
            /\ H' = [H EXCEPT ![i][j] = FAdd(@, simps(y', x, ngrid))]
       ELSE /\ H' = [H EXCEPT ![i][j] = FAdd(@, Mirror(i, j))]
            /\ y' = y
    /\ pwrites' = [pwrites EXCEPT ![i][j] = @ + 1]
    /\ LET c == NextCell(i, j)
       IN  IF c[1] < nbasis
           THEN /\ i' = c[1]
                /\ j' = c[2]
                /\ pc' = pc
           ELSE /\ pc' = "diagonalize"
                /\ UNCHANGED <<i, j>>
    /\ UNCHANGED <<inputs, err, config, x, eigen, output, plotrange>>

\* ------------------------------------------------------ diagonalization
Indices(M) == DOMAIN M

HasNonFinite(M) == \E a \in Indices(M) : \E b \in Indices(M) : ~Finite(M[a][b])

IsDiagonal(M) ==
    \A a \in Indices(M) : \A b \in Indices(M) : a # b => M[a][b] = 0

Diagonal(M) == [a \in Indices(M) |-> M[a][a]]

\* the place of d[a] when d is put in ascending order (equal values keep
\* their order)
Rank(d, a) ==
    Cardinality({b \in DOMAIN d : d[b] < d[a] \/ (d[b] = d[a] /\ b < a)})

\* mutant: descending order
SortDescending(d) ==
    [k \in DOMAIN d |->
        d[CHOOSE a \in DOMAIN d : Rank(d, a) = Cardinality(DOMAIN d) - 1 - k]]

SortAscending(d) ==
    [k \in DOMAIN d |-> d[CHOOSE a \in DOMAIN d : Rank(d, a) = k]]

RECURSIVE SumUpTo(_, _)
SumUpTo(f, k) == IF k < 0 THEN 0 ELSE f[k] + SumUpTo(f, k - 1)

IsAscending(f) ==
    \A a \in DOMAIN f : \A b \in DOMAIN f : a < b => f[a] <= f[b]

\* a bound on the norm of the off-diagonal part of M
OffRadius(M) ==
    LET n == Cardinality(Indices(M))
        cells == {c \in Indices(M) \X Indices(M) : c[1] # c[2]}
        offs == {Abs(M[c[1]][c[2]]) : c \in cells}
    IN  (n - 1) * (CHOOSE m \in offs : \A o \in offs : o <= m)

\* line 183, the eigenvalues scipy.linalg.eigh may return for a finite symmetric
\* M, ascending.  For a diagonal M they are its diagonal, sorted.  Otherwise
\* they are not computable in integers and only eigh's contract is kept:
\* eigenvalue k is within OffRadius of the k-th smallest diagonal entry, and
\* the eigenvalues sum to the trace.
eigvals(M) ==
    LET d == SortAscending(Diagonal(M))
        n == Cardinality(Indices(M))
    IN  IF IsDiagonal(M) THEN {d}
        ELSE LET R == OffRadius(M)
                 shifts == {s \in [Indices(M) -> {0 - R, 0, R}] :
                               SumUpTo(s, n - 1) = 0}
                 shifted == {[k \in Indices(M) |-> d[k] + s[k]] : s \in shifts}
             IN  {e \in shifted : IsAscending(e)}

\* line 183, the eigenvectors: column k belongs to eigenvalue k.  For a
\* diagonal M column k is the unit vector of the k-th smallest diagonal entry
\* (1.0 is Scale); otherwise the entries are not modelled.
eigvecs(M) ==
    IF IsDiagonal(M)
    THEN [r \in Indices(M) |->
            [k \in Indices(M) |-> IF Rank(Diagonal(M), r) = k THEN Scale ELSE 0]]
    ELSE [r \in Indices(M) |-> [k \in Indices(M) |-> "dense"]]

\* mutant: check_finite=False, inf and nan go through to LAPACK and come back
\* as nan eigenvalues
eighUnchecked(M) ==
    IF HasNonFinite(M)
    THEN {[err |-> "none", w |-> [k \in Indices(M) |-> NonFinite],
           v |-> [r \in Indices(M) |-> [k \in Indices(M) |-> "dense"]], a |-> M]}
    ELSE {[err |-> "LinAlgError"]}
         \cup {[err |-> "none", w |-> e, v |-> eigvecs(M), a |-> M] : e \in eigvals(M)}

\* mutant: overwrite_a=True, the argument comes back holding the eigenvectors
eighOverwrite(M) ==
    IF HasNonFinite(M) THEN {[err |-> "ValueError"]}
    ELSE {[err |-> "LinAlgError"]}
         \cup {[err |-> "none", w |-> e, v |-> eigvecs(M), a |-> eigvecs(M)] :
                   e \in eigvals(M)}

\* line 183, scipy.linalg.eigh(M): its possible outcomes.  It raises ValueError
\* on an inf or nan entry (check_finite) and LinAlgError when LAPACK does not
\* converge; otherwise it returns the eigenvalues w and eigenvectors v, and
\* leaves its argument as it was (a: overwrite_a is False).
eigh(M) ==
    IF HasNonFinite(M) THEN {[err |-> "ValueError"]}
    ELSE {[err |-> "LinAlgError"]}
         \cup {[err |-> "none", w |-> e, v |-> eigvecs(M), a |-> M] : e \in eigvals(M)}

\* line 183
Diagonalize ==
    /\ pc = "diagonalize"
    /\ \E r \in eigh(H) :
          IF r.err # "none"
          THEN /\ Raise(r.err)
               /\ UNCHANGED <<eigen, H>>
          ELSE /\ evalues' = r.w
               /\ evectors' = r.v
               /\ H' = r.a
               /\ pc' = "print"
               /\ err' = err
    /\ UNCHANGED <<inputs, config, x, i, j, y, pwrites, output, plotrange>>

\* ------------------------------------------------------------- output
\* lines 193-202: the results table, one row per level: <<v, energy>> for
\* the first and <<v, energy, delta E>> for the others
PrintResults ==
    /\ pc = "print"
    /\ stdout' = [r \in 1..Min(MaxRows, nbasis) |->
                    IF r = 1 THEN <<0, evalues[0]>>
                    ELSE <<r - 1, evalues[r - 1], evalues[r - 1] - evalues[r - 2]>>]
    /\ pc' = "write"
    /\ UNCHANGED <<inputs, err, config, assembly, eigen, outfile, spectrumfile,
                   potentialfile, plotrange>>

\* lines 204-224: the eigenvalue file
WriteFile ==
    /\ pc = "write"
    /\ outfile' = [xmin |-> xmin, xmax |-> xmax, ngrid |-> ngrid, nbasis |-> nbasis,
                   evalues |-> [k \in 0..(nbasis - 1) |-> evalues[k]],
                   evectors |-> [r \in 0..(nbasis - 1) |->
                                   [k \in 0..(nbasis - 1) |-> evectors[r][k]]]]
    /\ pc' = IF make_plots THEN "spectrum" ELSE "done"
    /\ UNCHANGED <<inputs, err, config, assembly, eigen, stdout, spectrumfile,
                   potentialfile, plotrange>>

\* lines 226-241: the graph of the eigenvalue spectrum
PlotSpectrum ==
    /\ pc = "spectrum"
    /\ spectrumfile' = TRUE
    /\ pc' = "wavefunctions"
    /\ UNCHANGED <<inputs, err, config, assembly, eigen, stdout, outfile,
                   potentialfile, plotrange>>

\* lines 244-284: the graph of the potential and the eigenfunctions, with the
\* plot ranges adjusted first (lines 251-263)
PlotPotential ==
    /\ pc = "wavefunctions"
    /\ LET xlo1 == IF plotxmin = 0 THEN xmin ELSE plotxmin
           xhi1 == IF plotxmax = 0 THEN xmax ELSE plotxmax
           xlo2 == IF xlo1 = xhi1 THEN xmin ELSE xlo1
           yhi1 == IF plotymax = 0 THEN (5 * de) \div 4 ELSE plotymax
       IN  /\ plotmax' = IF xlo1 = xhi1 THEN xmax ELSE plotmax
           /\ plotxmin' = IF xlo2 > xhi1 THEN xhi1 ELSE xlo2
           /\ plotxmax' = IF xlo2 > xhi1 THEN xlo2 ELSE xhi1
           /\ plotymin' = IF plotymin > yhi1 THEN yhi1 ELSE plotymin
           /\ plotymax' = IF plotymin > yhi1 THEN plotymin ELSE yhi1
    /\ potentialfile' = TRUE
    /\ pc' = "done"
    /\ UNCHANGED <<inputs, err, config, assembly, eigen, stdout, outfile,
                   spectrumfile>>

Next ==
    \/ Configure
    \/ BuildGrid
    \/ Kinetic
    \/ PotentialStep
    \/ Diagonalize
    \/ PrintResults
    \/ WriteFile
    \/ PlotSpectrum
    \/ PlotPotential

Spec == Init /\ [][Next]_vars

\* The interpreter runs the script to its end: no step is postponed forever.
FairSpec == Spec /\ WF_vars(Next)

\* ------------------------------------------------- where the run is
EmitStages == {"print", "write", "spectrum", "wavefunctions", "done"}

\* the input correction (lines 125-143) has run to its end
Configured == pc # "configure" /\ err # "ZeroDivisionError"

\* the grid and the zero matrix exist (lines 149-152 have run)
GridBuilt == Configured /\ pc # "grid"

\* both assembly loops have finished (line 179 was left for the last time)
Assembled ==
    \/ pc \in {"diagonalize"} \cup EmitStages
    \/ pc = "aborted" /\ err \in {"ValueError", "LinAlgError"}

\* eigh has returned
Diagonalized == pc \in EmitStages

Cells == (0..(nbasis - 1)) \X (0..(nbasis - 1))

\* ------------------------------------------------------------- claims

\* C1: after the potential-energy double loop has finished the Hamiltonian is
\* exactly symmetric: H[a][b] and H[b][a] are the identical value for every
\* pair of indices, whatever nbasis, the grid and the potential are.
C1_HamiltonianSymmetric ==
    Assembled => \A c \in Cells : H[c[1]][c[2]] = H[c[2]][c[1]]

C1_Witness ==
    /\ Assembled
    /\ nbasis >= 2
    /\ Finite(H[0][1])
    /\ H[0][1] # 0
    /\ H[1][0] = H[0][1]

\* C2: with V identically 0 (box) every potential matrix element is exactly 0:
\* the assembled Hamiltonian is diagonal with H[a][a] = C*(a+1)^2, strictly
\* increasing in a, and the eigenvalues returned are exactly these diagonal
\* values in index order.  For nbasis = 1, ngrid = 3, xmin = 0, xmax = 1 the
\* single eigenvalue is C and the eigenvector is [1.0].
C2_BoxSpectrum ==
    potential = "box" =>
        /\ Assembled =>
              /\ \A c \in Cells :
                    H[c[1]][c[2]] =
                        IF c[1] = c[2] THEN kepf * (c[1] + 1) * (c[1] + 1) ELSE 0
              /\ \A a \in 0..(nbasis - 2) : H[a][a] < H[a + 1][a + 1]
        /\ Diagonalized =>
              \A a \in 0..(nbasis - 1) : evalues[a] = kepf * (a + 1) * (a + 1)
        /\ Diagonalized /\ cfg = [xmin |-> 0, xmax |-> 1, ngrid |-> 3, nbasis |-> 1] =>
              /\ kepf = KPref
              /\ evalues = [a \in {0} |-> KPref]
              /\ evectors = [a \in {0} |-> [b \in {0} |-> Scale]]

C2_Witness ==
    /\ potential = "box"
    /\ Diagonalized
    /\ nbasis >= 2
    /\ evalues[0] < evalues[1]
    /\ evalues[0] = H[0][0]

\* C3: for every integer input ngrid (0, negative and even ones included) the
\* corrected grid size is max(ngrid, 3), plus 1 if that is even; it is odd and
\* at least 3, and the grid built afterwards has exactly that many points.
C3_GridSize ==
    LET floored == IF cfg.ngrid >= 3 THEN cfg.ngrid ELSE 3
        wanted == IF floored % 2 = 0 THEN floored + 1 ELSE floored
    IN  /\ Configured => ngrid = wanted /\ ngrid % 2 = 1 /\ ngrid >= 3
        /\ GridBuilt => DOMAIN x = 0..(ngrid - 1) /\ Cardinality(DOMAIN x) = wanted

C3_Witness ==
    /\ GridBuilt
    /\ cfg.ngrid = 4
    /\ ngrid = 5
    /\ Cardinality(DOMAIN x) = 5

\* C4: for every pair of input bounds the correction never fails and yields
\* xmax > xmin (L > 0): equal bounds give xmax = xmin + 1 with xmin unchanged,
\* inverted bounds are swapped, ordered bounds are unchanged.  The grid is then
\* strictly increasing from the corrected xmin to the corrected xmax.
C4_BoundsCorrected ==
    /\ pc # "configure" =>
          /\ err # "ZeroDivisionError"
          /\ xmax > xmin
          /\ L > 0
          /\ cfg.xmax = cfg.xmin => xmin = cfg.xmin /\ xmax = cfg.xmin + 1
          /\ cfg.xmax < cfg.xmin => xmin = cfg.xmax /\ xmax = cfg.xmin
          /\ cfg.xmax > cfg.xmin => xmin = cfg.xmin /\ xmax = cfg.xmax
    /\ GridBuilt =>
          /\ \A k \in 0..(ngrid - 2) : x[k] < x[k + 1]
          /\ x[0] = xmin * (ngrid - 1)
          /\ x[ngrid - 1] = xmax * (ngrid - 1)

\* C5: the kinetic energy is exactly diagonal.  While the kinetic loop runs, the
\* matrix holds C*(a+1)^2 in the diagonal cells already visited and 0 everywhere
\* else; when the loop has ended it is the diagonal matrix K; the final matrix
\* is K + P elementwise, P[a][b] being the quadrature of the pair (a, b).
C5_KineticDiagonal ==
    LET K(a, b) == IF a = b THEN kepf * (a + 1) * (a + 1) ELSE 0
        P(a, b) == simps(Samples(Min(a, b), Max(a, b)), x, ngrid)
    IN  /\ pc = "kinetic" =>
              \A c \in Cells :
                  H[c[1]][c[2]] = IF c[1] < i THEN K(c[1], c[2]) ELSE 0
        /\ pc = "potential" /\ i = 0 /\ j = 0 =>
              \A c \in Cells : H[c[1]][c[2]] = K(c[1], c[2])
        /\ Assembled =>
              \A c \in Cells : H[c[1]][c[2]] = FAdd(K(c[1], c[2]), P(c[1], c[2]))

C5_Witness ==
    /\ Assembled
    /\ nbasis >= 2
    /\ Finite(H[1][1])
    /\ H[1][1] > 4 * kepf
    /\ H[0][1] # 0
    /\ Finite(H[0][1])

\* C6: a non-finite sample of the potential puts a non-finite entry into the
\* Hamiltonian; a Hamiltonian with a non-finite entry, or a failing
\* eigendecomposition, aborts the run with nothing emitted (no table, no
\* eigenvalue file, no plot); output exists only in runs whose diagonalization
\* completed.
C6_AllOrNothing ==
    LET nothing == /\ stdout = <<>>
                   /\ outfile = <<>>
                   /\ ~spectrumfile
                   /\ ~potentialfile
    IN  /\ GridBuilt /\ (\E k \in DOMAIN y : y[k] = NonFinite) =>
              \E c \in Cells : H[c[1]][c[2]] = NonFinite
        /\ Assembled /\ (\E c \in Cells : H[c[1]][c[2]] = NonFinite) =>
              pc \in {"diagonalize", "aborted"}
        /\ pc = "aborted" => err # "none" /\ nothing
        /\ ~nothing => Diagonalized /\ err = "none"

C6_Witness ==
    /\ pc = "aborted"
    /\ err = "ValueError"
    /\ \E k \in DOMAIN y : y[k] = NonFinite
    /\ stdout = <<>>
    /\ outfile = <<>>

\* C7: the run is one linear pipeline Configure -> BuildGrid -> Assemble ->
\* Diagonalize -> emit: every step stays in its stage or goes to the next one
\* (or aborts), Configure, BuildGrid and Diagonalize are single steps, nothing
\* runs after a failure, and a run ends aborted or reaches the emit stage.
StageOf(p) ==
    CASE p = "configure" -> 1
      [] p = "grid" -> 2
      [] p \in {"kinetic", "potential"} -> 3
      [] p = "diagonalize" -> 4
      [] p \in EmitStages -> 5
      [] p = "aborted" -> 6

C7_LinearPipeline ==
    /\ [][/\ pc # "aborted"
          /\ pc # "done"
          /\ pc' = "aborted" \/ StageOf(pc') \in {StageOf(pc), StageOf(pc) + 1}
          /\ pc' = "aborted" <=> err' # "none"
          /\ pc \in {"configure", "grid", "diagonalize"} => StageOf(pc') # StageOf(pc)
          /\ pc = "potential" => pc' # "kinetic"]_vars
    /\ <>(pc = "aborted" \/ pc \in EmitStages)

C7_Witness ==
    /\ pc = "done"
    /\ err = "none"
    /\ stdout # <<>>
    /\ outfile # <<>>
    /\ potentialfile

\* C8: once assembled the Hamiltonian is never written again, and once
\* corrected the configuration never changes: no step after the correction
\* changes xmin, xmax, L, ngrid or nbasis, no step after the grid is built
\* changes x, and diagonalization and the output steps leave H unchanged.
C8_FrozenAfterAssembly ==
    [][/\ pc # "configure" => UNCHANGED <<xmin, xmax, L, ngrid, nbasis>>
       /\ pc \notin {"configure", "grid"} => UNCHANGED x
       /\ pc \in {"diagonalize"} \cup EmitStages => UNCHANGED H]_vars

C8_Witness ==
    /\ pc = "done"
    /\ potentialfile
    /\ spectrumfile
    /\ plotxmin = xmin
    /\ plotxmax = xmax
    /\ nbasis >= 2
    /\ H[0][1] # 0

\* C9: the quadrature is computed only for cells with j >= i and each loop
\* step writes only its own cell; the copy into a lower-triangle cell happens
\* only after the mirrored upper-triangle cell has its quadrature value, the
\* upper cell is never written after that, and every cell is written exactly
\* once by the loop, so that the copy adds onto 0.
C9_MirrorOrder ==
    /\ [](GridBuilt =>
            /\ \A c \in Cells :
                  /\ pwrites[c[1]][c[2]] <= 1
                  /\ c[2] < c[1] /\ pwrites[c[1]][c[2]] = 1 => pwrites[c[2]][c[1]] = 1
                  /\ c[2] < c[1] /\ pwrites[c[1]][c[2]] = 0 => H[c[1]][c[2]] = 0
                  /\ Assembled => pwrites[c[1]][c[2]] = 1
            /\ pc = "potential" /\ j < i => pwrites[j][i] = 1)
    /\ [][pc = "potential" =>
            /\ \A c \in Cells : c # <<i, j>> => H'[c[1]][c[2]] = H[c[1]][c[2]]
            /\ pwrites'[i][j] = pwrites[i][j] + 1
            /\ j < i => y' = y /\ H'[i][j] = H[j][i]]_vars

C9_Witness ==
    /\ Assembled
    /\ nbasis >= 2
    /\ pwrites[1][0] = 1
    /\ pwrites[0][1] = 1
    /\ Finite(H[1][0])
    /\ H[1][0] # 0

\* C10: for every cell with j >= i the value added to H[i][j] is the composite
\* Simpson sum (dx/3)*(y[0] + 4*y[1] + 2*y[2] + ... + 4*y[ngrid-2] + y[ngrid-1])
\* of the samples y[k] = phi_i(x[k]-xmin)*V(x[k])*phi_j(x[k]-xmin), every grid
\* node sampled once (dx = L/(ngrid-1)).
SimpsonWeight(k) ==
    IF k = 0 \/ k = ngrid - 1 THEN 1 ELSE IF k % 2 = 1 THEN 4 ELSE 2

RECURSIVE WeightedSum(_, _)
WeightedSum(yv, k) ==
    IF k < 0 THEN 0
    ELSE FAdd(WeightedSum(yv, k - 1), FMul(SimpsonWeight(k), yv[k]))

CompositeSimpson(yv) == FDiv(FMul(L, WeightedSum(yv, ngrid - 1)), 3 * (ngrid - 1))

C10_SimpsonQuadrature ==
    [][pc = "potential" /\ j >= i =>
          /\ DOMAIN y' = 0..(ngrid - 1)
          /\ \A k \in 0..(ngrid - 1) :
                y'[k] = FDiv(FMul(FDiv(FMul(pib(x[k] - xmin * (ngrid - 1), i + 1, L),
                                            V(x[k])), Scale),
                                  pib(x[k] - xmin * (ngrid - 1), j + 1, L)), Scale)
          /\ H'[i][j] = FAdd(H[i][j], CompositeSimpson(y'))]_vars

C10_Witness ==
    /\ Assembled
    /\ ngrid = 5
    /\ \A k \in 1..3 : Finite(y[k]) /\ y[k] # 0
    /\ Finite(H[0][0])
    /\ H[0][0] # kepf
====
